---- MODULE Spec2Model ----
(***************************************************************************)
(* Model of the class-body desugaring driver (dsl/dsl.cc), of the node     *)
(* pass DSL::run makes over a tree, of the node constructors and renderers *)
(* of ast/Trees.cc, and of the fatal error path of common/Exception.h.     *)
(***************************************************************************)
EXTENDS Integers, Sequences, FiniteSets

\* ------------------------------------------------------------------ bounds
MaxBody == 3
MaxRepl == 2
MaxAnyBody == 1
MaxEntries == 2
MaxDepth == 2
MaxLog == 2
MaxTwice == 2

\* ------------------------------------------------------------------ nodes

\* A raw pointer is the id of the node it points to; nullptr is 0.
nullptr == 0

\* The "no such argument" marker in the call log of a rule that takes no
\* previous-statement argument.
NoArg == -1

\* The concrete node variants (every class of ast/Trees.cc with a constructor
\* that counts itself into the "trees" category).
NodeVariants ==
    {"ClassDef", "MethodDef", "If", "While", "Break", "Retry", "Next", "Return",
     "Yield", "RescueCase", "Rescue", "Field", "Local", "UnresolvedIdent",
     "Assign", "Send", "Cast", "ZSuperArgs", "RestArg", "KeywordArg",
     "OptionalArg", "ShadowArg", "BlockArg", "Literal", "UnresolvedConstantLit",
     "ConstantLit", "Self", "Block", "Hash", "Array", "InsSeq", "EmptyTree"}

\* The direct base class each constructor initialises.
BaseOf(variant) ==
    IF variant \in {"ClassDef", "MethodDef"} THEN "Declaration"
    ELSE IF variant \in {"Field", "Local", "UnresolvedIdent", "RestArg", "KeywordArg",
                         "OptionalArg", "ShadowArg", "BlockArg"} THEN "Reference"
    ELSE "Expression"

\* dynamic_cast<type *>(node) succeeds: type is the node's class or one of
\* its bases.
IsA(variant, type) ==
    \/ type = variant
    \/ type = BaseOf(variant)
    \/ type = "Expression"

\* The statement kinds the bodies of the main specification are drawn from.
StmtKinds == {"Assign", "Send", "MethodDef", "ClassDef", "Literal"}

\* A statement as the parser (or the class-level hook) produced it.
Stmt(id, kind) == [id |-> id, kind |-> kind, by |-> "parser", of |-> nullptr]

\* ------------------------------------------------------------------ state

VARIABLES
    pc,            \* position inside postTransformClassDef
    rhs,           \* classDef->rhs
    oldRHS,        \* the local oldRHS (entries are MovedFrom once moved from)
    idx,           \* position of the range-for loop under way
    prevStat,      \* the local prevStat
    replaceNodes,  \* the local replaceNodes: pointer -> replacement list
    nextId,        \* next fresh node identity
    calls,         \* log: the rule invocations, in order
    handled,       \* log: the typecase handlers invoked, in order
    input,         \* history: classDef->rhs on entry
    scanned,       \* history: classDef->rhs when the scan began
    rebuilt        \* history: the rebuild path was taken

driverVars == <<pc, rhs, oldRHS, idx, prevStat, replaceNodes, nextId, calls, handled,
                input, scanned, rebuilt>>

VARIABLES
    node,          \* the node the last constructor call returned, or NoNode
    ctorLog,       \* the steps the last constructor call ran, in order
    rendered,      \* the output of the last showRaw / toString call
    ub             \* a renderer read through a null pointer or past a list's end

treeVars == <<node, ctorLog, rendered, ub>>

VARIABLES
    stack,         \* the call stack: one frame per active call, innermost last
    status,        \* "running", "unwinding", "handling" or "aborted"
    fatalLog,      \* the lines written through fatalLogger->error
    raised,        \* history: the last call of raise, or NoRaise
    fuzzing        \* whether failInFuzzer ends the process

raiseVars == <<stack, status, fatalLog, raised, fuzzing>>

VARIABLES
    tree,          \* the tree DSL::run works on: node id -> node
    given,         \* history: the tree as DSL::run received it
    walk,          \* the nodes TreeMap::apply has still to call a hook on, in order
    classDef,      \* the ClassDef postTransformClassDef was given, without its rhs
    returned,      \* the pointer postTransformClassDef returned, nullptr before
    hookLog,       \* log: the hook invocations of the run, in order
    pass,          \* the number of the DSL::run call under way
    quiet,         \* no statement of the tree is matched by any rule
    failure,       \* the fatal error a rule or the class-level hook raised
    earlier        \* history: an earlier call on an equal class body, or NoEarlier

runVars == <<tree, given, walk, classDef, returned, hookLog, pass, quiet, failure, earlier>>

vars == <<driverVars, treeVars, raiseVars, runVars>>

NoNode == [variant |-> "none"]
NoRaise == [kind |-> "none"]
NoClass == [id |-> nullptr]
NoEarlier == [input |-> nullptr]

\* The ids of a sequence of statements, as a set and in order.
Ids(seq) == {seq[k].id : k \in 1..Len(seq)}

IdSeq(seq) == [k \in DOMAIN seq |-> seq[k].id]

\* A ClassDef without its body: its name, ancestors, symbol, kind and loc
\* are its own and are told apart from those of every other ClassDef.
ClassDefOf(id) ==
    [id |-> id, name |-> id, ancestors |-> <<>>, symbol |-> id, kind |-> "class", loc |-> id]

\* The parts of the state a specification does not exercise stay as they are
\* before anything has been constructed, rendered or raised.
TreeIdle ==
    /\ node = NoNode
    /\ ctorLog = <<>>
    /\ rendered = [by |-> "none", out |-> <<>>]
    /\ ub = FALSE

RaiseIdle ==
    /\ stack = <<>>
    /\ status = "running"
    /\ fatalLog = <<>>
    /\ raised = NoRaise
    /\ fuzzing = FALSE

RunIdle ==
    /\ tree = <<>>
    /\ given = <<>>
    /\ walk = <<>>
    /\ classDef = NoClass
    /\ returned = nullptr
    /\ hookLog = <<>>
    /\ pass = 1
    /\ quiet = FALSE
    /\ failure = NoRaise
    /\ earlier = NoEarlier

\* ------------------------------------------------------------------ rules

\* The per-statement rules in the order the Send handler tries them.
SendRules == <<"ChalkODMProp", "MixinEncryptedProp", "DSLBuilder", "AttrReader">>

\* The typecase without its fallback handler.
HandlersNoFallback ==
    << [type |-> "Assign",     rules |-> <<"Struct">>],
       [type |-> "Send",       rules |-> <<"ChalkODMProp", "MixinEncryptedProp", "DSLBuilder", "AttrReader">>],
       [type |-> "MethodDef",  rules |-> <<"Sinatra">>] >>

\* The typecase with the Struct rule tried in the fallback handler as well.
HandlersStructForAll ==
    << [type |-> "Assign",     rules |-> <<"Struct">>],
       [type |-> "Send",       rules |-> <<"ChalkODMProp", "MixinEncryptedProp", "DSLBuilder", "AttrReader">>],
       [type |-> "MethodDef",  rules |-> <<"Sinatra">>],
       [type |-> "Expression", rules |-> <<"Struct">>] >>

\* The handlers of the driver's typecase, in order: the parameter type of
\* each lambda and the rules it tries.
Handlers ==
    << [type |-> "Assign",     rules |-> <<"Struct">>],
       [type |-> "Send",       rules |-> SendRules],
       [type |-> "MethodDef",  rules |-> <<"Sinatra">>],
       [type |-> "Expression", rules |-> <<>>] >>

\* typecase: the handlers are tried in order and only the first whose
\* parameter type the node can be cast to is invoked.
RECURSIVE typecaseFrom(_, _, _)
typecaseFrom(variant, hs, k) ==
    IF k > Len(hs) THEN <<>>
    ELSE IF IsA(variant, hs[k].type) THEN <<k>>
    ELSE typecaseFrom(variant, hs, k + 1)

typecase(variant) == typecaseFrom(variant, Handlers, 1)

\* The nodes a rule returns: n fresh nodes, in the order the rule built them.
FreshNodes(rule, stat, id, n) ==
    [k \in 1..n |-> [id |-> id + k - 1, kind |-> "MethodDef", by |-> rule, of |-> stat.id]]

\* Only AttrReader::replaceDSL takes the previous statement.
PrevArg(rule, prev) == IF rule = "AttrReader" THEN prev ELSE NoArg

\* One entry of the call log: the rule, its arguments and what it returned.
Call(rule, stat, prev, ret) ==
    [rule |-> rule, stat |-> stat.id, prev |-> PrevArg(rule, prev), ret |-> ret]

\* A handler with the early returns left out: every rule is called and the
\* last non-empty result is the one recorded.
RECURSIVE TryRulesNoReturn(_, _, _, _)
TryRulesNoReturn(rules, stat, prev, id) ==
    IF rules = <<>> THEN {[calls |-> <<>>, nodes |-> <<>>]}
    ELSE LET rule == Head(rules)
         IN  UNION { {[calls |-> <<Call(rule, stat, prev, FreshNodes(rule, stat, id, n))>> \o t.calls,
                       nodes |-> IF t.nodes # <<>> THEN t.nodes
                                 ELSE FreshNodes(rule, stat, id, n)] :
                         t \in TryRulesNoReturn(Tail(rules), stat, prev, id + n)}
                   : n \in 0..MaxRepl }

\* The body of one handler: the rules are called in order; the first
\* non-empty result is what the handler records, and the handler returns.
\* The result is the set of the possible outcomes, one per choice of what
\* the rules called return.
RECURSIVE TryRules(_, _, _, _)
TryRules(rules, stat, prev, id) ==
    IF rules = <<>> THEN {[calls |-> <<>>, nodes |-> <<>>]}
    ELSE LET rule == Head(rules)
         IN  UNION { IF n > 0
                     THEN {[calls |-> <<Call(rule, stat, prev, FreshNodes(rule, stat, id, n))>>,
                            nodes |-> FreshNodes(rule, stat, id, n)]}
                     ELSE {[calls |-> <<Call(rule, stat, prev, <<>>)>> \o t.calls,
                            nodes |-> t.nodes] :
                              t \in TryRules(Tail(rules), stat, prev, id)}
                   : n \in 0..MaxRepl }

\* replaceNodes[key] = std::move(nodes)
MapPut(map, key, nodes) ==
    [k \in (DOMAIN map) \cup {key} |-> IF k = key THEN nodes ELSE map[k]]

\* The non-empty test left out: an empty result is recorded like any other.
RecordAlways(map, stat, nodes) == MapPut(map, stat.id, nodes)

\* if (!nodes.empty()) replaceNodes[stat.get()] = std::move(nodes)
Record(map, stat, nodes) ==
    IF nodes # <<>> THEN MapPut(map, stat.id, nodes) ELSE map

\* The update of prevStat left out.
NextPrevStatStuck(stat) == nullptr

\* prevStat = stat.get(): the statement just examined, as it stands in the body
NextPrevStat(stat) == stat.id

\* The empty map.
EmptyMap == [k \in {} |-> <<>>]

\* prevStat as a member of DSLReplacer: what the last call left in it is
\* what the next call finds.
DeclaredPrevStatMember(last) == last

\* ast::Expression *prevStat = nullptr: a local of postTransformClassDef,
\* initialised on every call whatever an earlier call left in its own.
DeclaredPrevStat(last) == nullptr

\* ------------------------------------------------------------------ driver

Bodies(kinds, maxLen) ==
    UNION { [1..n -> kinds] : n \in 0..maxLen }

InitBody(kindsOf) == [k \in DOMAIN kindsOf |-> Stmt(k, kindsOf[k])]

InitWith(kinds, maxLen) ==
    /\ pc = "entry"
    /\ \E kindsOf \in Bodies(kinds, maxLen) :
          /\ rhs = InitBody(kindsOf)
          /\ input = InitBody(kindsOf)
          /\ classDef = ClassDefOf(Len(kindsOf) + 1)
          /\ nextId = Len(kindsOf) + 2
    /\ oldRHS = <<>>
    /\ idx = 0
    /\ prevStat = nullptr
    /\ replaceNodes = EmptyMap
    /\ calls = <<>>
    /\ handled = <<>>
    /\ scanned = <<>>
    /\ rebuilt = FALSE
    /\ tree = <<>>
    /\ given = <<>>
    /\ walk = <<>>
    /\ returned = nullptr
    /\ hookLog = <<>>
    /\ pass = 1
    /\ quiet = FALSE
    /\ failure = NoRaise
    /\ earlier = NoEarlier
    /\ TreeIdle
    /\ RaiseIdle

Init == InitWith(StmtKinds, MaxBody)

\* Command::patchDSL(ctx, classDef.get()): the class-level hook either leaves
\* the class alone or adds a synthesised method to its body.
PatchOutcomes(body, id) ==
    {body} \cup (IF Len(body) < MaxBody
                 THEN {Append(body, [id |-> id, kind |-> "MethodDef", by |-> "Command", of |-> nullptr])}
                 ELSE {})

\* What the class-level hook can do to a body; on a body equal to one of an
\* earlier call it does what it did then.
HookOutcomes(body, id) ==
    {b \in PatchOutcomes(body, id) : earlier # NoEarlier => Len(b) = Len(earlier.scanned)}

\* One entry of the hook log: the hook, the node it was called on, the number
\* of rule invocations made before it, and what it left behind (the ids of
\* the class body, or the id of the node returned for a Send).
HookCall(hook, id, left) ==
    [hook |-> hook, node |-> id, at |-> Len(calls), left |-> left]

\* The scan loop ranging over the body as it was before the class-level hook.
BodyAtLoopEntryUnpatched(before, patched) == before

\* for (auto &stat : classDef->rhs): the loop ranges over the body of the
\* ClassDef the class-level hook was given, as it stands after the hook.
BodyAtLoopEntry(before, patched) == patched

\* Entry of postTransformClassDef up to the head of the scan loop.
Enter ==
    /\ pc = "entry"
    /\ \E body \in HookOutcomes(rhs, nextId) :
          /\ rhs' = BodyAtLoopEntry(rhs, body)
          /\ scanned' = BodyAtLoopEntry(rhs, body)
          /\ nextId' = IF body = rhs THEN nextId ELSE nextId + 1
          /\ hookLog' = Append(hookLog, HookCall("patchDSL", classDef.id, IdSeq(body)))
    /\ prevStat' = DeclaredPrevStat(prevStat)
    /\ replaceNodes' = EmptyMap
    /\ idx' = 1
    /\ pc' = "scan"
    /\ UNCHANGED <<oldRHS, calls, handled, input, rebuilt>>
    /\ UNCHANGED <<tree, given, walk, classDef, returned, pass, quiet, failure>>
    /\ UNCHANGED earlier
    /\ UNCHANGED <<treeVars, raiseVars>>

\* The body with the nodes a rule returned put in the statement's place at
\* once.
ScanBodySpliced(body, k, nodes) ==
    IF nodes = <<>> THEN body
    ELSE SubSeq(body, 1, k - 1) \o nodes \o SubSeq(body, k + 1, Len(body))

\* The body with a matched statement taken out at once.
ScanBodyErased(body, k, nodes) ==
    IF nodes = <<>> THEN body
    ELSE SubSeq(body, 1, k - 1) \o SubSeq(body, k + 1, Len(body))

\* What an iteration of the scan loop does to classDef->rhs: nothing.  The
\* handlers assign to replaceNodes, the loop to prevStat.
ScanBody(body, k, nodes) == body

\* The position of the node with identity id in a body, 0 when it is not there.
PosIn(body, id) ==
    IF id \in Ids(body) THEN CHOOSE p \in DOMAIN body : body[p].id = id ELSE 0

\* The previous-statement argument of a call made earlier and that of a call
\* made now are equal: both absent, both null, or statements at the same
\* position of the two equal bodies.
SameArg(a, b) ==
    IF a \in {NoArg, nullptr} \/ b \in {NoArg, nullptr} THEN a = b
    ELSE PosIn(earlier.scanned, a) = PosIn(scanned, b)

\* The rule calls an earlier call of the driver made on the statement at
\* position p of its body.
EarlierCallsAt(p) ==
    IF p \in DOMAIN earlier.scanned
    THEN SelectSeq(earlier.calls, LAMBDA c : c.stat = earlier.scanned[p].id)
    ELSE <<>>

\* A rule is a function of its arguments: called on a statement equal to one
\* it was called on earlier (before lists those calls), with an equal
\* previous statement, it returns a list equal to the one it returned then.
AsEarlier(out, before) ==
    \A j \in DOMAIN out.calls :
        \A i \in DOMAIN before :
            (before[i].rule = out.calls[j].rule /\ SameArg(before[i].prev, out.calls[j].prev))
                => Len(out.calls[j].ret) = Len(before[i].ret)

\* What the rules of a handler can return for a statement; in a tree that no
\* rule matches every rule returns the empty list, and on a body equal to
\* one of an earlier call every rule returns what it returned then.
RuleOutcomes(rules, stat, prev, id) ==
    IF earlier = NoEarlier
    THEN {out \in TryRules(rules, stat, prev, id) : quiet => out.nodes = <<>>}
    ELSE LET before == EarlierCallsAt(PosIn(scanned, stat.id))
         IN  {out \in TryRules(rules, stat, prev, id) :
                 /\ quiet => out.nodes = <<>>
                 /\ AsEarlier(out, before)}

\* One iteration of the scan loop: the typecase on the statement, then the
\* update of prevStat.
ScanStat ==
    /\ pc = "scan"
    /\ idx <= Len(rhs)
    /\ LET stat == rhs[idx]
           hs == typecase(stat.kind)
           rules == IF hs = <<>> THEN <<>> ELSE Handlers[hs[1]].rules
       IN  \E out \in RuleOutcomes(rules, stat, prevStat, nextId) :
              /\ calls' = calls \o out.calls
              /\ rhs' = ScanBody(rhs, idx, out.nodes)
              /\ handled' = handled \o [k \in 1..Len(hs) |-> [stat |-> stat.id, handler |-> Handlers[hs[k]].type]]
              /\ replaceNodes' = Record(replaceNodes, stat, out.nodes)
              /\ nextId' = nextId + Len(out.nodes)
              /\ prevStat' = NextPrevStat(stat)
    /\ idx' = idx + 1
    /\ UNCHANGED <<pc, oldRHS, input, scanned, rebuilt>>
    /\ UNCHANGED <<treeVars, raiseVars, runVars>>

\* The fast path never taken.
IsFastPathNever(map) == FALSE

\* if (replaceNodes.empty())
IsFastPath(map) == DOMAIN map = {}

\* A return of no node.
ReturnedNodeNull(c) == nullptr

\* return classDef: the unique_ptr the function was given is what it returns.
ReturnedNode(c) == c.id

\* The no-op fast path: return classDef.
ReturnUnchanged ==
    /\ pc = "scan"
    /\ idx > Len(rhs)
    /\ IsFastPath(replaceNodes)
    /\ returned' = ReturnedNode(classDef)
    /\ pc' = "done"
    /\ UNCHANGED <<rhs, oldRHS, idx, prevStat, replaceNodes, nextId, calls, handled,
                   input, scanned, rebuilt>>
    /\ UNCHANGED <<tree, given, walk, classDef, hookLog, pass, quiet, failure>>
    /\ UNCHANGED earlier
    /\ UNCHANGED <<treeVars, raiseVars>>

\* The replacement spliced in after the original instead of in its place.
ContributionKeepsOriginal(map, stat) ==
    IF stat.id \in DOMAIN map THEN <<stat>> \o map[stat.id] ELSE <<stat>>

\* What one old statement contributes to the new body.
Contribution(map, stat) ==
    IF stat.id \in DOMAIN map THEN map[stat.id] ELSE <<stat>>

\* A moved-from unique_ptr.
MovedFrom == [id |-> nullptr, kind |-> "moved", by |-> "moved", of |-> nullptr]

\* The replacement lists in the order an iteration over the pointer-keyed map
\* gives them: by the address of the key.
RECURSIVE InMapOrder(_, _)
InMapOrder(map, keys) ==
    IF keys = {} THEN <<>>
    ELSE LET key == CHOOSE x \in keys : \A y \in keys : x <= y
         IN  map[key] \o InMapOrder(map, keys \ {key})

\* A rebuild that goes through the map instead of the old body: the
\* replacement lists in the map's order, then the statements left.
RebuildLoopInMapOrder(old, map, k, new) ==
    [rhs          |-> InMapOrder(map, DOMAIN map)
                        \o SelectSeq(old, LAMBDA stat : stat.id \notin DOMAIN map),
     oldRHS       |-> [j \in DOMAIN old |-> IF old[j].id \in DOMAIN map THEN old[j] ELSE MovedFrom],
     replaceNodes |-> [key \in DOMAIN map |-> [j \in DOMAIN map[key] |-> MovedFrom]]]

\* The rebuild loop from position k on: every old statement either has its
\* replacement nodes moved into the new body, one by one, or is moved there
\* itself; what is moved from is left null.
RECURSIVE RebuildLoop(_, _, _, _)
RebuildLoop(old, map, k, new) ==
    IF k > Len(old) THEN [rhs |-> new, oldRHS |-> old, replaceNodes |-> map]
    ELSE IF old[k].id \in DOMAIN map
    THEN RebuildLoop(old,
                     [map EXCEPT ![old[k].id] = [j \in DOMAIN @ |-> MovedFrom]],
                     k + 1,
                     new \o Contribution(map, old[k]))
    ELSE RebuildLoop([old EXCEPT ![k] = MovedFrom],
                     map,
                     k + 1,
                     new \o Contribution(map, old[k]))

\* The rebuild path: auto oldRHS = std::move(classDef->rhs); clear; reserve;
\* the rebuild loop; return classDef.
Rebuild ==
    /\ pc = "scan"
    /\ idx > Len(rhs)
    /\ ~IsFastPath(replaceNodes)
    /\ LET r == RebuildLoop(rhs, replaceNodes, 1, <<>>)
       IN  /\ rhs' = r.rhs
           /\ oldRHS' = r.oldRHS
           /\ replaceNodes' = r.replaceNodes
    /\ rebuilt' = TRUE
    /\ returned' = ReturnedNode(classDef)
    /\ pc' = "done"
    /\ UNCHANGED <<idx, prevStat, nextId, calls, handled, input, scanned>>
    /\ UNCHANGED <<tree, given, walk, classDef, hookLog, pass, quiet, failure>>
    /\ UNCHANGED earlier
    /\ UNCHANGED <<treeVars, raiseVars>>

Next ==
    \/ Enter
    \/ ScanStat
    \/ ReturnUnchanged
    \/ Rebuild

Spec == Init /\ [][Next]_vars

\* The nodes of a body equal to the given one, at other addresses: in the
\* order of the body or in the opposite order.
EqualBodies(body, id) ==
    { [k \in DOMAIN body |-> [body[k] EXCEPT !.id = id + k - 1]],
      [k \in DOMAIN body |-> [body[k] EXCEPT !.id = id + Len(body) - k]] }

\* postTransformClassDef has returned and is called again, on a ClassDef
\* whose body is equal to the one the call before was given.
CalledAgain ==
    /\ pc = "done"
    /\ earlier = NoEarlier
    /\ earlier' = [input |-> input, scanned |-> scanned, calls |-> calls,
                   rhs |-> rhs, rebuilt |-> rebuilt]
    /\ \E body \in EqualBodies(input, nextId) :
          /\ rhs' = body
          /\ input' = body
    /\ classDef' = ClassDefOf(nextId + Len(input))
    /\ nextId' = nextId + Len(input) + 1
    /\ oldRHS' = <<>>
    /\ idx' = 0
    /\ prevStat' = DeclaredPrevStat(prevStat)
    /\ replaceNodes' = EmptyMap
    /\ calls' = <<>>
    /\ handled' = <<>>
    /\ scanned' = <<>>
    /\ rebuilt' = FALSE
    /\ returned' = nullptr
    /\ hookLog' = <<>>
    /\ pc' = "entry"
    /\ UNCHANGED <<tree, given, walk, pass, quiet, failure>>
    /\ UNCHANGED <<treeVars, raiseVars>>

\* The statement kinds of the bodies the driver is called twice on: one with
\* the four Send rules, one with a single rule, one with none.
TwiceKinds == {"Send", "MethodDef", "Literal"}

\* The driver called twice on equal bodies.
InitTwice == InitWith(TwiceKinds, MaxTwice)

NextTwice ==
    \/ Enter
    \/ ScanStat
    \/ ReturnUnchanged
    \/ Rebuild
    \/ CalledAgain

SpecTwice == InitTwice /\ [][NextTwice]_vars

\* The same driver on bodies drawn from every node variant.
InitAny == InitWith(NodeVariants, MaxAnyBody)

SpecAny == InitAny /\ [][Next]_vars

\* ------------------------------------------------------------------ the pass over a tree

\* A node of the tree: its kind, its children in order (for a ClassDef the
\* statements of its rhs), who built it, and for which node.
TreeNode(kind, kids, by, of) == [kind |-> kind, kids |-> kids, by |-> by, of |-> of]

Parsed(kind, kids) == TreeNode(kind, kids, "parser", nullptr)

\* The root of a tree is its first node.
Root == 1

\* The trees the pass is run on.  The first has a Send outside any class and
\* a class whose body is a Send and a method with a Send in its body; the
\* second has a class whose body is a Send with a Send argument and a nested
\* class, itself with a Send as its body.
RunTrees ==
    { << Parsed("InsSeq", <<2, 3>>),
         Parsed("Send", <<>>),
         Parsed("ClassDef", <<4, 5>>),
         Parsed("Send", <<>>),
         Parsed("MethodDef", <<6>>),
         Parsed("Send", <<>>) >>,
      << Parsed("InsSeq", <<2>>),
         Parsed("ClassDef", <<3, 5>>),
         Parsed("Send", <<4>>),
         Parsed("Send", <<>>),
         Parsed("ClassDef", <<6>>),
         Parsed("Send", <<>>) >> }

\* DSLReplacer with postTransformClassDef declared as a preTransform hook.
HookOfClassDefPre(kind) ==
    CASE kind = "ClassDef" -> [phase |-> "pre", fn |-> "postTransformClassDef"]
      [] kind = "Send"     -> [phase |-> "post", fn |-> "postTransformSend"]
      [] OTHER             -> [phase |-> "none", fn |-> "none"]

\* DSLReplacer without postTransformSend.
HookOfNoSend(kind) ==
    CASE kind = "ClassDef" -> [phase |-> "post", fn |-> "postTransformClassDef"]
      [] OTHER             -> [phase |-> "none", fn |-> "none"]

\* The hooks DSLReplacer declares, by the kind of node they take; both are
\* postTransform hooks, which TreeMap calls on a node once it has been
\* through the node's children.
HookOf(kind) ==
    CASE kind = "ClassDef" -> [phase |-> "post", fn |-> "postTransformClassDef"]
      [] kind = "Send"     -> [phase |-> "post", fn |-> "postTransformSend"]
      [] OTHER             -> [phase |-> "none", fn |-> "none"]

\* TreeMap::apply: the order in which the nodes get their hook called: a
\* preTransform hook before the children of the node are gone through, a
\* postTransform hook (and a node without a hook) after.
RECURSIVE Traversal(_, _)
RECURSIVE TraversalOfKids(_, _)
Traversal(t, id) ==
    IF HookOf(t[id].kind).phase = "pre"
    THEN <<id>> \o TraversalOfKids(t, t[id].kids)
    ELSE TraversalOfKids(t, t[id].kids) \o <<id>>

TraversalOfKids(t, kids) ==
    IF kids = <<>> THEN <<>>
    ELSE Traversal(t, Head(kids)) \o TraversalOfKids(t, Tail(kids))

\* The nodes below a node.
RECURSIVE Descendants(_, _)
Descendants(t, id) ==
    UNION { {t[id].kids[k]} \cup Descendants(t, t[id].kids[k]) : k \in DOMAIN t[id].kids }

\* A node the tree no longer owns is destroyed, and so is what is below it.
Owned(t) == [id \in {Root} \cup Descendants(t, Root) |-> t[id]]

\* A statement of a class body as the driver sees it.
StmtOf(t, id) == [id |-> id, kind |-> t[id].kind, by |-> t[id].by, of |-> t[id].of]

\* classDef->rhs of the ClassDef c.
BodyOf(t, c) == [k \in DOMAIN t[c].kids |-> StmtOf(t, t[c].kids[k])]

\* The tree with the pointer to old replaced, in its owner, by a pointer to
\* the new node.
Replaced(t, old, new, n) ==
    Owned([id \in (DOMAIN t) \cup {new} |->
              IF id = new THEN n
              ELSE [t[id] EXCEPT !.kids = [k \in DOMAIN @ |-> IF @[k] = old THEN new ELSE @[k]]]])

\* InterfaceWrapper::replaceDSL(ctx, std::move(send)): the Send itself, or
\* the node built in its place; in a tree that no rule matches, the Send.
InterfaceWrapperOutcomes(t, send, id) ==
    {[tree |-> t, result |-> send, nextId |-> id]}
    \cup (IF quiet THEN {}
          ELSE {[tree   |-> Replaced(t, send, id, TreeNode("Cast", <<>>, "InterfaceWrapper", send)),
                 result |-> id,
                 nextId |-> id + 1]})

\* The tree with the body of the ClassDef c as the driver returned it; the
\* nodes the rules and the class-level hook built are new in the tree.
WithBody(t, c, body) ==
    Owned([id \in (DOMAIN t) \cup Ids(body) |->
              IF id = c THEN [t[c] EXCEPT !.kids = IdSeq(body)]
              ELSE IF id \in DOMAIN t THEN t[id]
              ELSE LET k == CHOOSE j \in DOMAIN body : body[j].id = id
                   IN  TreeNode(body[k].kind, <<>>, body[k].by, body[k].of)])

\* The locals of postTransformClassDef outside a call of it: they are kept
\* at the values the declarations of the next call give them.
LocalsGone ==
    /\ rhs' = <<>>
    /\ oldRHS' = <<>>
    /\ idx' = 0
    /\ prevStat' = DeclaredPrevStat(prevStat)
    /\ replaceNodes' = EmptyMap
    /\ input' = <<>>
    /\ scanned' = <<>>
    /\ rebuilt' = FALSE
    /\ classDef' = NoClass
    /\ returned' = nullptr

\* TreeMap comes to a Send: postTransformSend(ctx, std::move(send)).
VisitSend ==
    /\ pc = "idle"
    /\ walk # <<>>
    /\ HookOf(tree[Head(walk)].kind).fn = "postTransformSend"
    /\ \E r \in InterfaceWrapperOutcomes(tree, Head(walk), nextId) :
          /\ tree' = r.tree
          /\ nextId' = r.nextId
          /\ hookLog' = Append(hookLog, HookCall("postTransformSend", Head(walk), <<r.result>>))
    /\ walk' = Tail(walk)
    /\ UNCHANGED <<pc, rhs, oldRHS, idx, prevStat, replaceNodes, calls, handled, input,
                   scanned, rebuilt>>
    /\ UNCHANGED <<given, classDef, returned, pass, quiet, failure>>
    /\ UNCHANGED earlier
    /\ UNCHANGED <<treeVars, raiseVars>>

\* TreeMap comes to a node DSLReplacer has no hook for.
VisitOther ==
    /\ pc = "idle"
    /\ walk # <<>>
    /\ HookOf(tree[Head(walk)].kind).fn = "none"
    /\ walk' = Tail(walk)
    /\ UNCHANGED <<driverVars, treeVars, raiseVars>>
    /\ UNCHANGED <<tree, given, classDef, returned, hookLog, pass, quiet, failure>>
    /\ UNCHANGED earlier

\* TreeMap comes to a ClassDef: postTransformClassDef(ctx, std::move(classDef))
\* is called.
VisitClassDef ==
    /\ pc = "idle"
    /\ walk # <<>>
    /\ HookOf(tree[Head(walk)].kind).fn = "postTransformClassDef"
    /\ classDef' = ClassDefOf(Head(walk))
    /\ rhs' = BodyOf(tree, Head(walk))
    /\ input' = BodyOf(tree, Head(walk))
    /\ pc' = "entry"
    /\ UNCHANGED <<oldRHS, idx, prevStat, replaceNodes, nextId, calls, handled, scanned, rebuilt>>
    /\ UNCHANGED <<tree, given, walk, returned, hookLog, pass, quiet, failure>>
    /\ UNCHANGED earlier
    /\ UNCHANGED <<treeVars, raiseVars>>

\* postTransformClassDef has returned: TreeMap puts the node it returned
\* where the ClassDef was and goes on.
ClassDefReturned ==
    /\ pc = "done"
    /\ walk # <<>>
    /\ tree' = WithBody(tree, Head(walk), rhs)
    /\ hookLog' = Append(hookLog, HookCall("postTransformClassDef", returned, IdSeq(rhs)))
    /\ walk' = Tail(walk)
    /\ pc' = "idle"
    /\ LocalsGone
    /\ UNCHANGED <<nextId, calls, handled>>
    /\ UNCHANGED <<given, pass, quiet, failure>>
    /\ UNCHANGED earlier
    /\ UNCHANGED <<treeVars, raiseVars>>

\* DSL::run is called again, on the tree the first call returned, and the
\* tree has no statement left that a rule matches.
RunAgain ==
    /\ pc = "idle"
    /\ walk = <<>>
    /\ pass = 1
    /\ pass' = 2
    /\ quiet' = TRUE
    /\ given' = tree
    /\ walk' = Traversal(tree, Root)
    /\ hookLog' = <<>>
    /\ calls' = <<>>
    /\ handled' = <<>>
    /\ UNCHANGED <<pc, rhs, oldRHS, idx, prevStat, replaceNodes, nextId, input, scanned, rebuilt>>
    /\ UNCHANGED <<tree, classDef, returned, failure>>
    /\ UNCHANGED earlier
    /\ UNCHANGED <<treeVars, raiseVars>>

\* A fatal error as the driver's log has it.
Fatal(by, id) == [kind |-> "raise", by |-> by, node |-> id]

\* The rules of a handler up to rule j have returned the empty list.
EmptyCalls(rules, j, stat, prev) ==
    [i \in 1..(j - 1) |-> Call(rules[i], stat, prev, <<>>)]

\* A rule called in the scan loop raises a fatal error: Exception::raise
\* throws, and nothing in postTransformClassDef catches.
RuleRaises ==
    /\ pc = "scan"
    /\ idx <= Len(rhs)
    /\ LET stat == rhs[idx]
           hs == typecase(stat.kind)
           rules == IF hs = <<>> THEN <<>> ELSE Handlers[hs[1]].rules
       IN  \E j \in DOMAIN rules :
              /\ calls' = calls \o EmptyCalls(rules, j, stat, prevStat)
              /\ handled' = handled \o [k \in 1..Len(hs) |-> [stat |-> stat.id, handler |-> Handlers[hs[k]].type]]
              /\ failure' = Fatal(rules[j], stat.id)
    /\ pc' = "raised"
    /\ UNCHANGED <<rhs, oldRHS, idx, prevStat, replaceNodes, nextId, input, scanned, rebuilt>>
    /\ UNCHANGED <<tree, given, walk, classDef, returned, hookLog, pass, quiet>>
    /\ UNCHANGED earlier
    /\ UNCHANGED <<treeVars, raiseVars>>

\* The class-level hook raises a fatal error, before or after it has changed
\* the class.
PatchRaises ==
    /\ pc = "entry"
    /\ \E body \in PatchOutcomes(rhs, nextId) :
          /\ rhs' = body
          /\ nextId' = IF body = rhs THEN nextId ELSE nextId + 1
          /\ hookLog' = Append(hookLog, HookCall("patchDSL", classDef.id, IdSeq(body)))
    /\ failure' = Fatal("Command", classDef.id)
    /\ pc' = "raised"
    /\ UNCHANGED <<oldRHS, idx, prevStat, replaceNodes, calls, handled, input, scanned, rebuilt>>
    /\ UNCHANGED <<tree, given, walk, classDef, returned, pass, quiet>>
    /\ UNCHANGED earlier
    /\ UNCHANGED <<treeVars, raiseVars>>

\* The exception leaves postTransformClassDef: its locals and its parameter,
\* the unique_ptr that owns the ClassDef, are destroyed, and so is the rest
\* of the tree as the exception leaves TreeMap::apply and DSL::run.
LeftByException ==
    /\ pc = "raised"
    /\ pc' = "failed"
    /\ LocalsGone
    /\ tree' = <<>>
    /\ walk' = <<>>
    /\ UNCHANGED <<nextId, calls, handled>>
    /\ UNCHANGED <<given, hookLog, pass, quiet, failure>>
    /\ UNCHANGED earlier
    /\ UNCHANGED <<treeVars, raiseVars>>

InitRun ==
    /\ pc = "idle"
    /\ rhs = <<>>
    /\ oldRHS = <<>>
    /\ idx = 0
    /\ prevStat = nullptr
    /\ replaceNodes = EmptyMap
    /\ calls = <<>>
    /\ handled = <<>>
    /\ input = <<>>
    /\ scanned = <<>>
    /\ rebuilt = FALSE
    /\ \E t \in RunTrees :
          /\ tree = t
          /\ given = t
          /\ walk = Traversal(t, Root)
          /\ nextId = Len(t) + 1
    /\ classDef = NoClass
    /\ returned = nullptr
    /\ hookLog = <<>>
    /\ pass = 1
    /\ quiet = FALSE
    /\ failure = NoRaise
    /\ earlier = NoEarlier
    /\ TreeIdle
    /\ RaiseIdle

NextRun ==
    \/ VisitSend
    \/ VisitOther
    \/ VisitClassDef
    \/ Enter
    \/ ScanStat
    \/ ReturnUnchanged
    \/ Rebuild
    \/ ClassDefReturned
    \/ RunAgain
    \/ RuleRaises
    \/ PatchRaises
    \/ LeftByException

SpecRun == InitRun /\ [][NextRun]_vars

\* ------------------------------------------------------------------ trees

\* What a child pointer holds: nullptr, an EmptyTree node, or a node of any
\* other variant.
ChildKinds == {"null", "empty", "expr"}

\* The single-child members of each variant.
SingleSlots(variant) ==
    CASE variant = "ClassDef"              -> {"name"}
      [] variant = "MethodDef"             -> {"rhs"}
      [] variant = "If"                    -> {"cond", "thenp", "elsep"}
      [] variant = "While"                 -> {"cond", "body"}
      [] variant \in {"Break", "Next", "Return"} -> {"expr"}
      [] variant = "RescueCase"            -> {"var", "body"}
      [] variant = "Rescue"                -> {"body", "else_", "ensure"}
      [] variant = "Assign"                -> {"lhs", "rhs"}
      [] variant = "Send"                  -> {"recv", "block"}
      [] variant = "Cast"                  -> {"arg"}
      [] variant \in {"RestArg", "KeywordArg", "ShadowArg", "BlockArg"} -> {"expr"}
      [] variant = "OptionalArg"           -> {"expr", "default_"}
      [] variant = "UnresolvedConstantLit" -> {"scope"}
      [] variant = "ConstantLit"           -> {"original", "typeAlias"}
      [] variant = "Block"                 -> {"body"}
      [] variant = "InsSeq"                -> {"expr"}
      [] OTHER                             -> {}

\* The child-list members of each variant.
ListSlots(variant) ==
    CASE variant = "ClassDef"   -> {"ancestors", "rhs"}
      [] variant = "MethodDef"  -> {"args"}
      [] variant = "Yield"      -> {"args"}
      [] variant = "RescueCase" -> {"exceptions"}
      [] variant = "Rescue"     -> {"rescueCases"}
      [] variant = "Send"       -> {"args"}
      [] variant = "Block"      -> {"args"}
      [] variant = "Hash"       -> {"keys", "values"}
      [] variant = "Array"      -> {"elems"}
      [] variant = "InsSeq"     -> {"stats"}
      [] OTHER                  -> {}

\* The members the renderers test against nullptr before they read through
\* them; every other member is read unconditionally.
NullableSlots(variant) ==
    CASE variant = "Send"        -> {"block"}
      [] variant = "ConstantLit" -> {"original", "typeAlias"}
      [] OTHER                   -> {}

\* A constructor body with the sanity check of If left out.
CtorBodyIfUnchecked(variant) ==
    IF variant = "If" THEN <<"categoryCounterInc">>
    ELSE IF variant = "UnresolvedIdent"
    THEN <<"categoryCounterInc", "_sanityCheck", "_sanityCheck">>
    ELSE <<"categoryCounterInc", "histogramInc", "_sanityCheck">>

\* A constructor body with the sanity check of Array left out.
CtorBodyArrayUnchecked(variant) ==
    IF variant = "Array" THEN <<"categoryCounterInc", "histogramInc">>
    ELSE IF variant = "UnresolvedIdent"
    THEN <<"categoryCounterInc", "_sanityCheck", "_sanityCheck">>
    ELSE <<"categoryCounterInc", "_sanityCheck">>

\* A constructor body with the sanity check of Hash left out.
CtorBodyHashUnchecked(variant) ==
    IF variant = "Hash" THEN <<"categoryCounterInc", "histogramInc">>
    ELSE IF variant = "UnresolvedIdent"
    THEN <<"categoryCounterInc", "_sanityCheck", "_sanityCheck">>
    ELSE <<"categoryCounterInc", "_sanityCheck">>

\* The statements of each constructor's body, in order (the member
\* initialisers, which move the children in, run before the body).
CtorBody(variant) ==
    CASE variant = "ClassDef" ->
            <<"categoryCounterInc", "histogramInc", "histogramInc", "_sanityCheck">>
      [] variant \in {"MethodDef", "RescueCase", "Rescue", "Send", "Hash", "Array", "InsSeq"} ->
            <<"categoryCounterInc", "histogramInc", "_sanityCheck">>
      [] variant = "UnresolvedIdent" ->
            <<"categoryCounterInc", "_sanityCheck", "_sanityCheck">>
      [] OTHER ->
            <<"categoryCounterInc", "_sanityCheck">>

\* A SymbolRef either names a symbol or is the noSymbol placeholder.
SymbolRefs == {"exists", "noSymbol"}

\* The SymbolRef a constructor is given.  It is kept for ConstantLit, whose
\* renderer branches on it; for the other variants it plays no part here.
SymbolsOf(variant) == IF variant = "ConstantLit" THEN SymbolRefs ELSE {"noSymbol"}

\* What a single-child member can hold by its type: original is a pointer to
\* an UnresolvedConstantLit, so it is never an EmptyTree.
SlotKinds(variant, slot) ==
    IF variant = "ConstantLit" /\ slot = "original" THEN {"null", "expr"} ELSE ChildKinds

\* The node once the member initialisers have run.
MakeNode(variant, symbol, single, lists) ==
    [variant |-> variant, symbol |-> symbol, single |-> single, lists |-> lists, checks |-> 0]

\* The resolutions a ConstantLit carries.
Resolutions(n) ==
    (IF n.symbol = "exists" THEN {"symbol"} ELSE {})
    \cup (IF n.single["typeAlias"] # "null" THEN {"typeAlias"} ELSE {})
    \cup (IF n.single["original"] # "null" THEN {"original"} ELSE {})

\* _sanityCheck: every structurally required child is present, every element
\* of a child list is present, the key and value lists of a Hash have the
\* same length, and a ConstantLit carries exactly one resolution.
SanityCheck(n) ==
    /\ \A s \in DOMAIN n.single :
          s \notin NullableSlots(n.variant) => n.single[s] # "null"
    /\ \A l \in DOMAIN n.lists : \A i \in 1..Len(n.lists[l]) : n.lists[l][i] # "null"
    /\ n.variant = "Hash" => Len(n.lists["keys"]) = Len(n.lists["values"])
    /\ n.variant = "ConstantLit" => Cardinality(Resolutions(n)) = 1

\* The constructor body run statement by statement on the node; a failed
\* sanity check throws, and the statements after it do not run.
RECURSIVE RunCtor(_, _, _)
RunCtor(steps, k, st) ==
    IF k > Len(steps) \/ st.threw THEN st
    ELSE RunCtor(steps, k + 1,
            IF steps[k] = "_sanityCheck"
            THEN IF SanityCheck(st.node)
                 THEN [node  |-> [st.node EXCEPT !.checks = @ + 1],
                       log   |-> Append(st.log, steps[k]),
                       threw |-> FALSE]
                 ELSE [node  |-> st.node,
                       log   |-> Append(st.log, steps[k]),
                       threw |-> TRUE]
            ELSE [node |-> st.node, log |-> Append(st.log, steps[k]), threw |-> FALSE])

\* A constructor call: the member initialisers, then the body.
Constructed(variant, symbol, single, lists) ==
    RunCtor(CtorBody(variant), 1,
            [node |-> MakeNode(variant, symbol, single, lists), log |-> <<"members">>, threw |-> FALSE])

\* ---- rendering

\* The output of a renderer is a sequence of tokens: literal text, or the
\* rendering of the child at position i of a member (i = 0 for a single
\* child).  Indentation and line breaks are left out.
Lit(text) == [lit |-> text, slot |-> "", i |-> 0]
Child(slot, i) == [lit |-> "", slot |-> slot, i |-> i]

\* What a read through a null pointer or past the end of a list yields.
UBTok == [lit |-> "", slot |-> "undefined", i |-> 0]

\* this->slot->render(...)
Deref(n, slot) ==
    IF n.single[slot] = "null" THEN UBTok ELSE Child(slot, 0)

\* list[i]->render(...), with i counted from 1
DerefAt(n, slot, i) ==
    IF i > Len(n.lists[slot]) \/ n.lists[slot][i] = "null" THEN UBTok ELSE Child(slot, i)

\* for (auto &a : list) buf << a->render(...)
Each(n, slot) == [i \in 1..Len(n.lists[slot]) |-> DerefAt(n, slot, i)]

\* The renderings separated by ", ".
RECURSIVE Separated(_)
Separated(toks) ==
    IF Len(toks) <= 1 THEN toks
    ELSE <<Head(toks), Lit(", ")>> \o Separated(Tail(toks))

SendShowRaw(n) ==
    <<Lit("Send"), Lit("{"), Lit("recv = "), Deref(n, "recv"), Lit("fun = "), Lit("fun"),
      Lit("block = "),
      IF n.single["block"] # "null" THEN Deref(n, "block") ELSE Lit("nullptr"),
      Lit("args = [")>>
    \o Each(n, "args") \o <<Lit("]"), Lit("}")>>

SendToString(n) ==
    <<Deref(n, "recv"), Lit("."), Lit("fun"), Lit("(")>>
    \o Separated(Each(n, "args")) \o <<Lit(")")>>
    \o (IF n.single["block"] # "null" THEN <<Deref(n, "block")>> ELSE <<>>)

ConstantLitShowRaw(n) ==
    <<Lit("ConstantLit"), Lit("{"), Lit("orig = "),
      IF n.single["original"] # "null" THEN Deref(n, "original") ELSE Lit("nullptr"),
      Lit("symbol = "), Lit("symbol"), Lit("typeAlias = "),
      IF n.single["typeAlias"] # "null" THEN Deref(n, "typeAlias") ELSE Lit("nullptr"),
      Lit("}")>>

\* The loop of Hash::showRaw: i counts the keys, values[i] is read unchecked.
RECURSIVE HashRawPairs(_, _)
HashRawPairs(n, i) ==
    IF i > Len(n.lists["keys"]) THEN <<>>
    ELSE <<Lit("["), Lit("key = "), DerefAt(n, "keys", i),
           Lit("value = "), DerefAt(n, "values", i), Lit("]")>>
         \o HashRawPairs(n, i + 1)

HashShowRaw(n) ==
    <<Lit("Hash"), Lit("{"), Lit("pairs = [")>> \o HashRawPairs(n, 1) \o <<Lit("]"), Lit("}")>>

\* The loop of Hash::toString.
RECURSIVE HashStringPairs(_, _)
HashStringPairs(n, i) ==
    IF i > Len(n.lists["keys"]) THEN <<>>
    ELSE (IF i > 1 THEN <<Lit(", ")>> ELSE <<>>)
         \o <<DerefAt(n, "keys", i), Lit(" => "), DerefAt(n, "values", i)>>
         \o HashStringPairs(n, i + 1)

HashToString(n) == <<Lit("{")>> \o HashStringPairs(n, 1) \o <<Lit("}")>>

\* Rescue::toString with every section written, whatever the branch holds.
RescueToStringAllSections(n) ==
    <<Deref(n, "body")>> \o Each(n, "rescueCases")
    \o <<Lit("else"), Deref(n, "else_")>>
    \o <<Lit("ensure"), Deref(n, "ensure")>>

\* cast_tree<EmptyTree>(p) == nullptr holds of every p that is not an
\* EmptyTree, a null p included.
RescueToString(n) ==
    <<Deref(n, "body")>> \o Each(n, "rescueCases")
    \o (IF n.single["else_"] # "empty" THEN <<Lit("else"), Deref(n, "else_")>> ELSE <<>>)
    \o (IF n.single["ensure"] # "empty" THEN <<Lit("ensure"), Deref(n, "ensure")>> ELSE <<>>)

\* ConstantLit::toString without the test of typeAlias.
ConstantLitToStringNoAliasTest(n) ==
    IF n.symbol = "exists" THEN <<Lit("fullName")>>
    ELSE <<Lit("Unresolved: "), Deref(n, "original")>>

\* original is read without a test once the two tests before it have failed.
ConstantLitToString(n) ==
    IF n.symbol = "exists" THEN <<Lit("fullName")>>
    ELSE IF n.single["typeAlias"] # "null" THEN <<Deref(n, "typeAlias")>>
    ELSE <<Lit("Unresolved: "), Deref(n, "original")>>

ShowRawOf(n) ==
    CASE n.variant = "Send"        -> SendShowRaw(n)
      [] n.variant = "ConstantLit" -> ConstantLitShowRaw(n)
      [] n.variant = "Hash"        -> HashShowRaw(n)

ToStringOf(n) ==
    CASE n.variant = "Send"        -> SendToString(n)
      [] n.variant = "Hash"        -> HashToString(n)
      [] n.variant = "Rescue"      -> RescueToString(n)
      [] n.variant = "ConstantLit" -> ConstantLitToString(n)

HasUB(toks) == \E k \in 1..Len(toks) : toks[k] = UBTok

NotRendered == [by |-> "none", out |-> <<>>]

\* ---- actions

ChildLists == UNION { [1..n -> ChildKinds] : n \in 0..MaxEntries }

\* new Variant(loc, children...): the caller gets the node unless the
\* constructor threw.  The model holds one node at a time.
Construct ==
    /\ node = NoNode
    /\ \E variant \in NodeVariants :
       \E symbol \in SymbolsOf(variant) :
       \E single \in {f \in [SingleSlots(variant) -> ChildKinds] :
                          \A sl \in SingleSlots(variant) : f[sl] \in SlotKinds(variant, sl)} :
       \E lists \in [ListSlots(variant) -> ChildLists] :
           LET r == Constructed(variant, symbol, single, lists)
           IN  /\ node' = IF r.threw THEN NoNode ELSE r.node
               /\ ctorLog' = r.log
               /\ rendered' = NotRendered
               /\ ub' = FALSE
               /\ UNCHANGED <<driverVars, raiseVars, runVars>>

\* The node's owner lets go of it.
Destroy ==
    /\ node # NoNode
    /\ node' = NoNode
    /\ ctorLog' = <<>>
    /\ rendered' = NotRendered
    /\ ub' = FALSE
    /\ UNCHANGED <<driverVars, raiseVars, runVars>>

\* A renderer's outcome: its output, unless it ran into undefined behaviour,
\* in which case it may also have stopped with nothing written.
Render(by, out) ==
    /\ rendered' \in ({[by |-> by, out |-> out]}
                      \cup (IF HasUB(out) THEN {[by |-> by, out |-> <<>>]} ELSE {}))
    /\ ub' = HasUB(out)
    /\ UNCHANGED <<node, ctorLog, driverVars, raiseVars, runVars>>

ShowRaw ==
    /\ node.variant \in {"Send", "ConstantLit", "Hash"}
    /\ Render("showRaw", ShowRawOf(node))

ToString ==
    /\ node.variant \in {"Send", "Hash", "Rescue", "ConstantLit"}
    /\ Render("toString", ToStringOf(node))

DriverIdle ==
    /\ pc = "idle"
    /\ rhs = <<>>
    /\ oldRHS = <<>>
    /\ idx = 0
    /\ prevStat = nullptr
    /\ replaceNodes = EmptyMap
    /\ nextId = 1
    /\ calls = <<>>
    /\ handled = <<>>
    /\ input = <<>>
    /\ scanned = <<>>
    /\ rebuilt = FALSE

InitTree ==
    /\ TreeIdle
    /\ DriverIdle
    /\ RaiseIdle
    /\ RunIdle

NextTree ==
    \/ Construct
    \/ Destroy
    \/ ShowRaw
    \/ ToString

SpecTree == InitTree /\ [][NextTree]_vars

\* ------------------------------------------------------------------ fatal errors

\* A string is a sequence of pieces of text; the empty string is <<>>.
Digit(d) == <<"0", "1", "2", "3", "4", "5", "6", "7", "8", "9">>[d + 1]

\* std::to_string(line)
RECURSIVE to_string(_)
to_string(n) ==
    IF n < 10 THEN <<Digit(n)>> ELSE to_string(n \div 10) \o <<Digit(n % 10)>>

\* absl::StrCat(args...)
RECURSIVE StrCat(_)
StrCat(args) ==
    IF args = <<>> THEN <<>> ELSE Head(args) \o StrCat(Tail(args))

\* The arguments enforce_handler passes on to raise.
EnforceArgs(check, file, line, args) ==
    <<file \o <<":">> \o to_string(line), <<" enforced condition ">>, check,
      <<" has failed: ">>>> \o args

\* The line raise writes through fatalLogger->error.
LogLine(message) ==
    IF Len(message) > 0
    THEN <<"Exception::raise(): ">> \o message \o <<"\n">>
    ELSE <<"Exception::raise() (sadly without a message)\n">>

\* raise with its throw statement left out: it logs and returns to its caller.
RaiseOutcomeNoThrow(fuzz, args) ==
    [exit |-> "return", message |-> StrCat(<<<<>>>> \o args),
     lines |-> <<LogLine(StrCat(<<<<>>>> \o args))>>]

\* Exception::raise(args...): failInFuzzer() (which ends the process when
\* fuzzing), the message, the log line, print_backtrace(), stopInDebugger(),
\* and the throw of SorbetException(message).
RaiseOutcome(fuzz, args) ==
    IF fuzz
    THEN [exit |-> "abort", message |-> <<>>, lines |-> <<>>]
    ELSE [exit |-> "throw", message |-> StrCat(<<<<>>>> \o args),
          lines |-> <<LogLine(StrCat(<<<<>>>> \o args))>>]

\* Exception::enforce_handler(check, file, line, args...)
EnforceOutcome(fuzz, check, file, line, args) ==
    RaiseOutcome(fuzz, EnforceArgs(check, file, line, args))

\* The inputs of the model.
Files == {<<"Trees.cc">>}
Lines == {7, 1136}
Checks == {<<"isSymbol(gs)">>}
ExtraArgs == {<<>>, <<<<"detail">>>>}
RaiseArgs == {<<>>, <<<<>>>>, <<<<"Not Implemented">>>>}

\* What a call of raise leaves behind.
AfterRaise(kind, file, line, check, o) ==
    /\ status' = CASE o.exit = "throw" -> "unwinding"
                   [] o.exit = "abort" -> "aborted"
                   [] OTHER            -> "running"
    /\ fatalLog' = fatalLog \o o.lines
    /\ raised' = [kind |-> kind, file |-> file, line |-> line, check |-> check,
                  message |-> o.message, exit |-> o.exit, depth |-> Len(stack),
                  logged |-> IF o.lines = <<>> THEN 0 ELSE Len(fatalLog) + 1,
                  caught |-> FALSE]
    /\ UNCHANGED <<stack, fuzzing, driverVars, treeVars, runVars>>

\* A function is called, from inside a try block that catches
\* SorbetException or not.
CallFn ==
    /\ status = "running"
    /\ Len(stack) < MaxDepth
    /\ \E try \in BOOLEAN : stack' = Append(stack, [try |-> try])
    /\ UNCHANGED <<status, fatalLog, raised, fuzzing, driverVars, treeVars, runVars>>

\* The innermost call returns normally.
ReturnFn ==
    /\ status = "running"
    /\ stack # <<>>
    /\ stack' = SubSeq(stack, 1, Len(stack) - 1)
    /\ UNCHANGED <<status, fatalLog, raised, fuzzing, driverVars, treeVars, runVars>>

\* An enforced condition fails in the innermost call.
EnforceFails ==
    /\ status = "running"
    /\ stack # <<>>
    /\ Len(fatalLog) < MaxLog
    /\ \E check \in Checks, file \in Files, line \in Lines, args \in ExtraArgs :
          AfterRaise("enforce", file, line, check,
                     EnforceOutcome(fuzzing, check, file, line, args))

\* The innermost call calls Exception::raise directly.
RaiseCalled ==
    /\ status = "running"
    /\ stack # <<>>
    /\ Len(fatalLog) < MaxLog
    /\ \E args \in RaiseArgs :
          AfterRaise("raise", <<>>, 0, <<>>, RaiseOutcome(fuzzing, args))

\* The exception leaves a call that has no handler for it.
Unwind ==
    /\ status = "unwinding"
    /\ stack # <<>>
    /\ ~stack[Len(stack)].try
    /\ stack' = SubSeq(stack, 1, Len(stack) - 1)
    /\ UNCHANGED <<status, fatalLog, raised, fuzzing, driverVars, treeVars, runVars>>

\* A handler of an enclosing call catches the exception.
Catch ==
    /\ status = "unwinding"
    /\ stack # <<>>
    /\ stack[Len(stack)].try
    /\ status' = "handling"
    /\ raised' = [raised EXCEPT !.caught = TRUE]
    /\ UNCHANGED <<stack, fatalLog, fuzzing, driverVars, treeVars, runVars>>

\* The handler is done and the call that caught the exception goes on.
Resume ==
    /\ status = "handling"
    /\ status' = "running"
    /\ UNCHANGED <<stack, fatalLog, raised, fuzzing, driverVars, treeVars, runVars>>

\* No call is left to catch the exception: std::terminate.
Terminate ==
    /\ status = "unwinding"
    /\ stack = <<>>
    /\ status' = "aborted"
    /\ UNCHANGED <<stack, fatalLog, raised, fuzzing, driverVars, treeVars, runVars>>

InitRaise ==
    /\ stack = <<>>
    /\ status = "running"
    /\ fatalLog = <<>>
    /\ raised = NoRaise
    /\ fuzzing \in BOOLEAN
    /\ TreeIdle
    /\ DriverIdle
    /\ RunIdle

NextRaise ==
    \/ CallFn
    \/ ReturnFn
    \/ EnforceFails
    \/ RaiseCalled
    \/ Unwind
    \/ Catch
    \/ Resume
    \/ Terminate

SpecRaise == InitRaise /\ [][NextRaise]_vars

\* ------------------------------------------------------------------ driver: properties

\* The statement at position k of the scanned body has been examined.
Examined(k) ==
    \/ pc = "scan" /\ k < idx
    \/ pc = "done"

\* The rule invocations made for the statement with identity id, in order.
CallsFor(id) == SelectSeq(calls, LAMBDA c : c.stat = id)

\* Some rule returned a non-empty list for the statement.
Matched(id) == \E k \in 1..Len(calls) : calls[k].stat = id /\ calls[k].ret # <<>>

\* Every rule invoked for the statement returned an empty list.
AllEmpty(id) == \A k \in 1..Len(calls) : calls[k].stat = id => calls[k].ret = <<>>

\* The list the matching rule returned, in the order it returned it.
Returned(id) ==
    calls[CHOOSE k \in 1..Len(calls) : calls[k].stat = id /\ calls[k].ret # <<>>].ret

AnyMatched == \E k \in 1..Len(calls) : calls[k].ret # <<>>

\* The concatenation, in statement order, of each statement's contribution.
RECURSIVE ExpectedBody(_)
ExpectedBody(stats) ==
    IF stats = <<>> THEN <<>>
    ELSE (IF Matched(Head(stats).id) THEN Returned(Head(stats).id) ELSE <<Head(stats)>>)
         \o ExpectedBody(Tail(stats))


PosOf(id) == CHOOSE p \in 1..Len(scanned) : scanned[p].id = id

\* C1: once at least one statement has been matched, the rebuilt body is the
\* concatenation, in original statement order, of the replacement list of
\* every matched statement (as the rule returned it) and of every unmatched
\* statement itself, and no matched original statement is in the rebuilt
\* body.
OrderPreservingSplice ==
    (pc = "done" /\ AnyMatched) =>
        /\ rebuilt
        /\ rhs = ExpectedBody(scanned)
        /\ \A k \in 1..Len(scanned) :
              Matched(scanned[k].id) => scanned[k].id \notin Ids(rhs)

\* [s0, s1, s2] with s1 -> [r1a, r1b] has become [s0, r1a, r1b, s2].
SpliceReached ==
    /\ pc = "done"
    /\ Len(scanned) = 3
    /\ ~Matched(1) /\ Matched(2) /\ ~Matched(3)
    /\ Len(Returned(2)) = 2
    /\ rhs = <<scanned[1], Returned(2)[1], Returned(2)[2], scanned[3]>>

\* C2: for every Send statement the rules are called in the order
\* ChalkODMProp, MixinEncryptedProp, DSLBuilder, AttrReader; every call but
\* the last returned an empty list; a call that returns a non-empty list is
\* the last one for the statement and its result is the recorded
\* replacement; all four are called only when the first three returned empty.
FirstMatchWins ==
    \A k \in 1..Len(scanned) :
        (Examined(k) /\ scanned[k].kind = "Send") =>
            LET id == scanned[k].id
                cs == CallsFor(id)
                n  == Len(cs)
            IN  /\ n \in 1..Len(SendRules)
                /\ \A j \in 1..n : cs[j].rule = SendRules[j]
                /\ \A j \in 1..(n - 1) : cs[j].ret = <<>>
                /\ cs[n].ret = <<>> => n = Len(SendRules)
                /\ pc = "scan" =>
                      IF cs[n].ret # <<>>
                      THEN id \in DOMAIN replaceNodes /\ replaceNodes[id] = cs[n].ret
                      ELSE id \notin DOMAIN replaceNodes

\* A Send that MixinEncryptedProp matched: ChalkODMProp was called before it
\* and returned empty, DSLBuilder and AttrReader were not called.
SecondRuleWon ==
    \E k \in 1..Len(scanned) :
        /\ Examined(k) /\ scanned[k].kind = "Send"
        /\ Len(CallsFor(scanned[k].id)) = 2
        /\ CallsFor(scanned[k].id)[2].rule = "MixinEncryptedProp"
        /\ CallsFor(scanned[k].id)[2].ret # <<>>
        /\ pc = "done"
        /\ \E j \in 1..Len(rhs) : rhs[j].by = "MixinEncryptedProp"

\* C3: when every rule invoked during the scan returned an empty list, the
\* class comes back with the body list it had when the scan began: the same
\* nodes in the same order, never moved out and rebuilt.
NoOpFastPath ==
    (pc = "done" /\ ~AnyMatched) =>
        /\ rhs = scanned
        /\ ~rebuilt
        /\ oldRHS = <<>>

\* The body [Assign] that the Struct rule did not match has come back.
AssignUnmatchedReturned ==
    /\ pc = "done"
    /\ scanned = <<Stmt(1, "Assign")>>
    /\ Len(calls) = 1 /\ calls[1].rule = "Struct" /\ calls[1].ret = <<>>
    /\ rhs = <<Stmt(1, "Assign")>>

\* C4: whenever AttrReader is invoked for the statement at position p, its
\* previous-statement argument is nullptr when p is the first position and
\* otherwise the original statement at position p - 1 of the scanned body.
PrevStatContext ==
    \A c \in 1..Len(calls) :
        calls[c].rule = "AttrReader" =>
            LET p == PosOf(calls[c].stat)
            IN  calls[c].prev = IF p = 1 THEN nullptr ELSE scanned[p - 1].id

\* AttrReader was invoked with a previous statement that a rule had matched.
PrevStatWasMatched ==
    \E c \in 1..Len(calls) :
        /\ calls[c].rule = "AttrReader"
        /\ calls[c].prev # nullptr
        /\ Matched(calls[c].prev)
        /\ PosOf(calls[c].stat) = 3

\* The handlers the typecase invoked for the statement with identity id.
HandledFor(id) == SelectSeq(handled, LAMBDA h : h.stat = id)

\* C5: for every statement examined, of any node variant, exactly one
\* handler of the typecase was invoked: the Assign, Send or MethodDef handler
\* for a statement of that variant and the fallback for every other variant.
DispatchTotality ==
    \A k \in 1..Len(scanned) :
        Examined(k) =>
            LET hs == HandledFor(scanned[k].id)
            IN  /\ Len(hs) = 1
                /\ hs[1].handler = IF scanned[k].kind \in {"Assign", "Send", "MethodDef"}
                                   THEN scanned[k].kind
                                   ELSE "Expression"

\* A Hash statement went through the fallback handler.
FallbackReached ==
    \E k \in 1..Len(scanned) :
        /\ Examined(k)
        /\ scanned[k].kind = "Hash"
        /\ HandledFor(scanned[k].id) = <<[stat |-> scanned[k].id, handler |-> "Expression"]>>

\* C7 as claimed: a statement for which the rules returned zero replacement
\* nodes is removed from the resulting body.
ZeroNodesRemoveStatement ==
    pc = "done" =>
        \A k \in 1..Len(scanned) :
            (CallsFor(scanned[k].id) # <<>> /\ AllEmpty(scanned[k].id)) =>
                scanned[k].id \notin Ids(rhs)

\* C7 as amended: a rule that returns zero nodes has not matched; the
\* statement stays in the body, and the resulting body is never shorter than
\* the scanned one.
ZeroNodesKeepStatement ==
    pc = "done" =>
        /\ Len(rhs) >= Len(scanned)
        /\ \A k \in 1..Len(scanned) :
              AllEmpty(scanned[k].id) => scanned[k].id \in Ids(rhs)

\* A rebuilt body in which a statement whose rule returned nothing remains.
ZeroNodesKept ==
    /\ pc = "done"
    /\ rebuilt
    /\ \E k \in 1..Len(scanned) :
          /\ CallsFor(scanned[k].id) # <<>>
          /\ AllEmpty(scanned[k].id)
          /\ scanned[k].id \in Ids(rhs)

\* ------------------------------------------------------------------ trees: properties

NullSlots(n) == {sl \in DOMAIN n.single : n.single[sl] = "null"}

NoNullElement(n) ==
    \A l \in DOMAIN n.lists : \A i \in 1..Len(n.lists[l]) : n.lists[l][i] # "null"

Range(seq) == {seq[k] : k \in 1..Len(seq)}

\* The number of "nullptr" texts in a rendering.
NullptrTexts(out) == Len(SelectSeq(out, LAMBDA t : t = Lit("nullptr")))

SanityCheckedBeforeReturn ==
    /\ node # NoNode =>
          /\ node.checks >= 1
          /\ ctorLog[1] = "members"
          /\ Len(ctorLog) >= 2
          /\ ctorLog[Len(ctorLog)] = "_sanityCheck"
          /\ Len(SelectSeq(ctorLog, LAMBDA st : st = "_sanityCheck")) = node.checks
    /\ (node = NoNode /\ ctorLog # <<>>) => ctorLog[Len(ctorLog)] = "_sanityCheck"

\* An UnresolvedIdent, whose constructor runs the check twice.
CheckedTwice ==
    /\ node.variant = "UnresolvedIdent"
    /\ node.checks = 2
    /\ ctorLog = <<"members", "categoryCounterInc", "_sanityCheck", "_sanityCheck">>

\* The child renderings in an output, in order.
ChildTokens(out) == SelectSeq(out, LAMBDA t : t.slot # "")

\* key 1, value 1, key 2, value 2, ...
PairedTokens(n) ==
    [j \in 1..(2 * Len(n.lists["keys"])) |->
        IF j % 2 = 1 THEN Child("keys", (j + 1) \div 2) ELSE Child("values", j \div 2)]

\* C10: every Hash node has as many values as keys, and showRaw and toString
\* render key i next to value i for every i up to the number of keys: values
\* is never read past its end and every value is rendered.
HashParallelLists ==
    (node # NoNode /\ node.variant = "Hash") =>
        /\ Len(node.lists["keys"]) = Len(node.lists["values"])
        /\ rendered.by # "none" =>
              /\ ~ub
              /\ ChildTokens(rendered.out) = PairedTokens(node)
              /\ \A i \in 1..Len(node.lists["values"]) :
                    \E k \in 1..Len(rendered.out) : rendered.out[k] = Child("values", i)

\* A Hash of two entries rendered by toString as {k1 => v1, k2 => v2}.
TwoPairsRendered ==
    /\ node.variant = "Hash"
    /\ Len(node.lists["keys"]) = 2
    /\ rendered.by = "toString"
    /\ rendered.out = <<Lit("{"), Child("keys", 1), Lit(" => "), Child("values", 1), Lit(", "),
                        Child("keys", 2), Lit(" => "), Child("values", 2), Lit("}")>>

\* The texts that open the sections of a rendering.
SectionTexts(out, text) == Len(SelectSeq(out, LAMBDA t : t = Lit(text)))

\* C11: in every Rescue node the else branch and the ensure branch each hold
\* a real expression or an EmptyTree, never a null pointer, and toString
\* writes the "else" section (the text, then the branch) exactly when the
\* else branch is not an EmptyTree, and the "ensure" section exactly when the
\* ensure branch is not an EmptyTree, reading through no null pointer.
RescueSentinelDiscipline ==
    (node # NoNode /\ node.variant = "Rescue") =>
        /\ node.single["else_"] \in {"empty", "expr"}
        /\ node.single["ensure"] \in {"empty", "expr"}
        /\ rendered.by = "toString" =>
              /\ ~ub
              /\ SectionTexts(rendered.out, "else") =
                    (IF node.single["else_"] = "empty" THEN 0 ELSE 1)
              /\ SectionTexts(rendered.out, "ensure") =
                    (IF node.single["ensure"] = "empty" THEN 0 ELSE 1)
              /\ (Child("else_", 0) \in Range(rendered.out)) = (node.single["else_"] # "empty")
              /\ (Child("ensure", 0) \in Range(rendered.out)) = (node.single["ensure"] # "empty")

\* A Rescue with an else branch and no ensure branch, rendered: body, the
\* rescue case, "else", the else branch, and nothing after it.
ElseWithoutEnsureRendered ==
    /\ node.variant = "Rescue"
    /\ node.single["else_"] = "expr"
    /\ node.single["ensure"] = "empty"
    /\ rendered.by = "toString"
    /\ rendered.out = <<Child("body", 0), Child("rescueCases", 1), Lit("else"), Child("else_", 0)>>

Contains(line, text) ==
    \E k \in 1..(Len(line) - Len(text) + 1) : SubSeq(line, k, k + Len(text) - 1) = text

RuleNames == {"Struct", "Sinatra"} \cup Range(SendRules)

\* The entries of the hook log for one hook.
HookEntries(hook) == SelectSeq(hookLog, LAMBDA e : e.hook = hook)

\* The Sends postTransformSend has been called on in this run.
Hooked == {e.node : e \in Range(HookEntries("postTransformSend"))}

\* The ClassDefs postTransformClassDef has returned in this run.
Completed == {e.node : e \in Range(HookEntries("postTransformClassDef"))}

\* The calls of the class-level hook on the ClassDef c in this run.
PatchesOf(c) == SelectSeq(hookLog, LAMBDA e : e.hook = "patchDSL" /\ e.node = c)

ClassDefsOf(t) == {c \in DOMAIN t : t[c].kind = "ClassDef"}

HooksBottomUp ==
    (pc \in {"entry", "scan"} /\ tree # <<>>) =>
        /\ \A d \in Descendants(tree, classDef.id) :
              /\ tree[d].kind = "Send" => d \in Hooked
              /\ tree[d].kind = "ClassDef" => d \in Completed
        /\ \A e \in Range(HookEntries("postTransformSend")) :
              e.left # <<e.node>> => e.node \notin Ids(input)
        /\ \A k \in DOMAIN calls :
              (calls[k].stat \in DOMAIN tree /\ tree[calls[k].stat].kind = "Send") =>
                  calls[k].stat \in Hooked

\* The scan of a class is under way whose body holds a nested class that is
\* done and a Send that has been through the Send hook and is now offered
\* to the rules.
ClassAfterItsChildren ==
    /\ pc = "scan"
    /\ \E k \in DOMAIN rhs : rhs[k].kind = "ClassDef" /\ rhs[k].id \in Completed
    /\ \E k \in DOMAIN rhs :
          /\ rhs[k].kind = "Send"
          /\ rhs[k].id \in Hooked
          /\ CallsFor(rhs[k].id) # <<>>

\* C15: postTransformClassDef returns one node, never null, and it is the
\* ClassDef it was given, on the fast path and on the rebuild path alike;
\* the ClassDef's name, ancestors, symbol, kind and loc are the ones it came
\* with, only its body list can differ.
OneNodeInOneNodeOut ==
    /\ pc \in {"entry", "scan"} =>
          /\ returned = nullptr
          /\ classDef = ClassDefOf(Head(walk))
    /\ pc = "done" =>
          /\ returned # nullptr
          /\ returned = Head(walk)
          /\ returned = classDef.id
          /\ classDef = ClassDefOf(Head(walk))
    /\ \A c \in Completed :
          /\ given[c].kind = "ClassDef"
          /\ c \in DOMAIN tree => tree[c].kind = "ClassDef"

\* A ClassDef returned on the rebuild path, with a new body.
RebuiltClassReturned ==
    /\ pc = "done"
    /\ rebuilt
    /\ Ids(rhs) # Ids(input)
    /\ returned = classDef.id
    /\ Completed # {}

\* C16: once the run is over, every Send of the tree the run was given has
\* been through postTransformSend, whether it stood in a class body, below a
\* statement of one, or outside every class; and the four Send rules are
\* only ever called on a Send that is a statement of the body of the class
\* under scan.
SendHookEverywhere ==
    /\ (pc = "idle" /\ walk = <<>>) =>
          \A id \in DOMAIN given : given[id].kind = "Send" => id \in Hooked
    /\ \A k \in DOMAIN calls :
          calls[k].rule \in Range(SendRules) =>
              /\ given[calls[k].stat].kind = "Send"
              /\ \E e \in Range(HookEntries("patchDSL")) :
                    /\ e.at < k
                    /\ calls[k].stat \in Range(e.left)
                    /\ calls[k].stat \in Range(given[e.node].kids)

\* The run is over: a Send outside every class and a Send below a statement
\* of a class have been through the Send hook and no rule was called on
\* them, and a Send rule was called on a statement.
HookedOutsideClassBodies ==
    /\ pc = "idle"
    /\ walk = <<>>
    /\ \E id \in Hooked :
          /\ \A c \in ClassDefsOf(given) : id \notin Descendants(given, c)
          /\ CallsFor(id) = <<>>
    /\ \E id \in Hooked :
          /\ \E c \in ClassDefsOf(given) :
                id \in Descendants(given, c) /\ id \notin Range(given[c].kids)
          /\ \A c \in ClassDefsOf(given) : id \notin Range(given[c].kids)
          /\ CallsFor(id) = <<>>
    /\ \E k \in DOMAIN calls : calls[k].rule \in Range(SendRules)

\* C17: when a rule raises a fatal error during the scan, the body list
\* holds exactly the statements it held when the scan began, in the same
\* order: the replacements recorded so far are in the map and none of them
\* is in the body, and the statements they are for are still there.  When
\* the class-level hook raises, the driver has recorded and spliced nothing.
NoPartialSplice ==
    pc = "raised" =>
        /\ oldRHS = <<>>
        /\ ~rebuilt
        /\ failure.by \in RuleNames => rhs = scanned
        /\ failure.by = "Command" => (replaceNodes = EmptyMap /\ Ids(input) \subseteq Ids(rhs))
        /\ \A id \in DOMAIN replaceNodes :
              /\ id \in Ids(rhs)
              /\ Ids(replaceNodes[id]) \cap Ids(rhs) = {}

\* A rule has raised with a replacement recorded for an earlier statement
\* of the body and not applied.
RaisedWithReplacementPending ==
    /\ pc = "raised"
    /\ failure.by \in RuleNames
    /\ DOMAIN replaceNodes # {}
    /\ Len(rhs) >= 2
    /\ rhs = scanned

\* C18: from the head of the scan loop until the loop is left the body list
\* is the list the scan began with: nothing is added, removed, reordered or
\* replaced; the replacements are in the map only, keyed by statements
\* already examined, and the body is rebuilt only once every statement has
\* been examined.
TwoPhaseScan ==
    /\ pc = "scan" =>
          /\ rhs = scanned
          /\ oldRHS = <<>>
          /\ ~rebuilt
          /\ idx <= Len(scanned) + 1
          /\ DOMAIN replaceNodes \subseteq {scanned[k].id : k \in 1..(idx - 1)}
          /\ \A id \in DOMAIN replaceNodes : Ids(replaceNodes[id]) \cap Ids(rhs) = {}
    /\ rebuilt => (pc = "done" /\ idx = Len(scanned) + 1)

\* In the middle of a scan, with a replacement recorded and the body as it
\* was.
RecordedNotApplied ==
    /\ pc = "scan"
    /\ 1 < idx
    /\ idx <= Len(rhs)
    /\ DOMAIN replaceNodes # {}
    /\ rhs = scanned

\* C19: the Struct rule is only called on Assign statements, the four Send
\* rules only on Send statements, the Sinatra rule only on MethodDef
\* statements; on a statement of any other variant no rule is called,
\* nothing is recorded for it, and it is in the body that is returned.
KindDirectedRules ==
    /\ \A k \in DOMAIN calls :
          LET kind == scanned[PosOf(calls[k].stat)].kind
          IN  /\ calls[k].rule = "Struct" => kind = "Assign"
              /\ calls[k].rule \in Range(SendRules) => kind = "Send"
              /\ calls[k].rule = "Sinatra" => kind = "MethodDef"
    /\ \A k \in DOMAIN scanned :
          (Examined(k) /\ scanned[k].kind \notin {"Assign", "Send", "MethodDef"}) =>
              /\ CallsFor(scanned[k].id) = <<>>
              /\ scanned[k].id \notin DOMAIN replaceNodes
              /\ pc = "done" => scanned[k] \in Range(rhs)

\* A body rebuilt around a Hash statement that no rule was called on.
OtherVariantUntouched ==
    /\ pc = "done"
    /\ rebuilt
    /\ \E k \in DOMAIN scanned :
          /\ scanned[k].kind = "Hash"
          /\ scanned[k] \in Range(rhs)
          /\ CallsFor(scanned[k].id) = <<>>

\* C20: in a run the class-level hook is called once on every ClassDef, and
\* before any rule is called on a statement of that class; the scan goes
\* through the body as the hook left it, and a statement the hook added is
\* offered to the rules when the scan comes to it.
PatchOnceBeforeRules ==
    /\ \A i, j \in DOMAIN hookLog :
          (hookLog[i].hook = "patchDSL" /\ hookLog[j].hook = "patchDSL"
             /\ hookLog[i].node = hookLog[j].node) => i = j
    /\ \A c \in Completed : Len(PatchesOf(c)) = 1
    /\ pc = "entry" =>
          /\ PatchesOf(classDef.id) = <<>>
          /\ \A k \in DOMAIN calls : calls[k].stat \notin Ids(input)
    /\ pc \in {"scan", "done"} =>
          /\ Len(PatchesOf(classDef.id)) = 1
          /\ IdSeq(scanned) = PatchesOf(classDef.id)[1].left
          /\ \A k \in DOMAIN calls :
                calls[k].stat \in Ids(scanned) => k > PatchesOf(classDef.id)[1].at
          /\ \A k \in DOMAIN scanned :
                (Examined(k) /\ scanned[k].by = "Command") => CallsFor(scanned[k].id) # <<>>

\* The second class of a run under scan: the hook has added a statement to
\* it and the Sinatra rule has been called on that statement.
HookAddedStatementOffered ==
    /\ pc \in {"scan", "done"}
    /\ Len(HookEntries("patchDSL")) = 2
    /\ \E k \in DOMAIN scanned :
          /\ scanned[k].by = "Command"
          /\ scanned[k].id \notin Ids(input)
          /\ \E i \in DOMAIN calls :
                calls[i].stat = scanned[k].id /\ calls[i].rule = "Sinatra"

\* The ids of the nodes the rules have returned so far.
ReturnedIds == UNION {Ids(calls[k].ret) : k \in DOMAIN calls}

\* C21: in one application of postTransformClassDef no rule is called twice
\* on the same statement, at most one call per statement has returned a
\* non-empty list (the one recorded, recorded once), rules are only called
\* on statements of the body the scan began with, and no node a rule
\* returned, spliced into the body or waiting in the map, is the statement
\* of any rule call.
DesugaredAtMostOnce ==
    LET built == ReturnedIds
        bodyIds == Ids(scanned)
    IN  /\ \A i, j \in DOMAIN calls :
              (i < j /\ calls[i].stat = calls[j].stat) =>
                  /\ calls[i].rule # calls[j].rule
                  /\ calls[i].ret = <<>> \/ calls[j].ret = <<>>
        /\ \A i \in DOMAIN calls :
              /\ calls[i].stat \in bodyIds
              /\ calls[i].stat \notin built
        /\ pc = "scan" =>
              \A id \in DOMAIN replaceNodes :
                  /\ \E i \in DOMAIN calls : calls[i].stat = id /\ calls[i].ret = replaceNodes[id]
                  /\ Ids(replaceNodes[id]) \cap bodyIds = {}
        /\ pc = "done" =>
              \A k \in DOMAIN rhs :
                  rhs[k].by \in RuleNames =>
                      /\ rhs[k].id \in built
                      /\ \A i \in DOMAIN calls : calls[i].stat # rhs[k].id

\* A Send replaced by two methods, followed by a method of the original
\* body: the Sinatra rule was called on the original method and on neither
\* of the two spliced in before it.
SplicedMethodsNotOffered ==
    /\ pc = "done"
    /\ Len(scanned) = 2
    /\ scanned[1].kind = "Send" /\ scanned[2].kind = "MethodDef"
    /\ Len(rhs) = 3
    /\ rhs[1].by \in Range(SendRules) /\ rhs[2].by \in Range(SendRules)
    /\ rhs[1].kind = "MethodDef" /\ rhs[2].kind = "MethodDef"
    /\ rhs[3] = scanned[2]
    /\ SelectSeq(calls, LAMBDA c : c.rule = "Sinatra") =
          <<[rule |-> "Sinatra", stat |-> scanned[2].id, prev |-> NoArg, ret |-> <<>>]>>

\* The entry of the class-level hook that has the statement in the body it
\* left, that is, the class whose scan the statement was in.
ScansWith(id) == {e \in Range(HookEntries("patchDSL")) : id \in Range(e.left)}

\* C22: prevStat and replaceNodes are new in every call of
\* postTransformClassDef: the scan of every class, nested or processed later
\* in the run, begins with prevStat null and the map empty; whenever
\* AttrReader is called on the first statement of a class body its
\* previous-statement argument is null, and otherwise it is a statement of
\* the same body; the map only has statements of the class under scan as
\* keys, and a node a rule built is only ever in the body of the class that
\* had the statement it was built for.
FreshLocalsPerClass ==
    /\ (pc = "scan" /\ idx = 1) => (prevStat = nullptr /\ replaceNodes = EmptyMap)
    /\ pc = "scan" => DOMAIN replaceNodes \subseteq Ids(scanned)
    /\ \A k \in DOMAIN calls :
          calls[k].rule = "AttrReader" =>
              /\ ScansWith(calls[k].stat) # {}
              /\ \A e \in ScansWith(calls[k].stat) :
                    /\ calls[k].stat = e.left[1] => calls[k].prev = nullptr
                    /\ calls[k].prev \in {nullptr} \cup Range(e.left)
    /\ pc = "done" =>
          \A k \in DOMAIN rhs :
              (rhs[k].by \in RuleNames /\ rhs[k].id \notin Ids(input)) =>
                  rhs[k].of \in Ids(scanned)
    /\ pass = 1 =>
          \A c \in Completed \cap DOMAIN tree :
              \A k \in Range(tree[c].kids) :
                  tree[k].by \in RuleNames => tree[k].of \in Range(PatchesOf(c)[1].left)

\* The class a nested class is in has been scanned after the nested one, in
\* which a Send was replaced: AttrReader was called on the first statement
\* of the outer class with no previous statement, and the body of the outer
\* class has no node built for a statement of the nested one.
OuterClassBeganAfresh ==
    /\ pc = "done"
    /\ pass = 1
    /\ \E c \in Completed \cap Ids(scanned) :
          \E k \in Range(tree[c].kids) : tree[k].by \in RuleNames
    /\ scanned[1].kind = "Send"
    /\ \E i \in DOMAIN calls :
          /\ calls[i].rule = "AttrReader"
          /\ calls[i].stat = scanned[1].id
          /\ calls[i].prev = nullptr
          /\ calls[i].ret # <<>>
    /\ rebuilt

\* ------------------------------------------------------------------ two calls: properties

\* Where a node of a resulting body comes from, whatever its address: its
\* kind, who built it, its position in the scanned body if it is a statement
\* of it, and for a node a rule returned the position of the statement it
\* was built for and its place in the list the rule returned.
ShapeOf(x, body, log) ==
    [kind |-> x.kind,
     by   |-> x.by,
     at   |-> PosIn(body, x.id),
     of   |-> PosIn(body, x.of),
     nth  |-> IF \E c \in DOMAIN log : x.id \in Ids(log[c].ret)
              THEN LET c == CHOOSE c \in DOMAIN log : x.id \in Ids(log[c].ret)
                   IN  PosIn(log[c].ret, x.id)
              ELSE 0]

Shapes(res, body, log) == [k \in DOMAIN res |-> ShapeOf(res[k], body, log)]

\* C23: when the rules (and the class-level hook) return on equal arguments
\* what they returned before, a second call of postTransformClassDef on a
\* body equal to that of an earlier call, its nodes at other addresses in
\* any order, makes the same rule calls in the same order and returns a body
\* equal, node for node, to the one the earlier call returned, by the same
\* path; the order of the keys of replaceNodes has no part in it.
SameBodyTwice ==
    (pc = "done" /\ earlier # NoEarlier) =>
        /\ Shapes(rhs, scanned, calls) = Shapes(earlier.rhs, earlier.scanned, earlier.calls)
        /\ rebuilt = earlier.rebuilt
        /\ Len(calls) = Len(earlier.calls)
        /\ \A k \in DOMAIN calls :
              /\ calls[k].rule = earlier.calls[k].rule
              /\ PosIn(scanned, calls[k].stat) = PosIn(earlier.scanned, earlier.calls[k].stat)
              /\ Len(calls[k].ret) = Len(earlier.calls[k].ret)

\* The second call has rebuilt a body whose first two statements were both
\* replaced and lie at addresses in the opposite order to those of the
\* earlier call.
RebuiltTwiceOppositeAddresses ==
    /\ pc = "done"
    /\ earlier # NoEarlier
    /\ rebuilt
    /\ Len(scanned) >= 2
    /\ scanned[1].id > scanned[2].id
    /\ earlier.scanned[1].id < earlier.scanned[2].id
    /\ Matched(scanned[1].id) /\ Matched(scanned[2].id)
    /\ Len(rhs) = Len(earlier.rhs)

====
